---- MODULE Spec2Model ----
(***************************************************************************)
(* Model of src/mcp.py: the four tool coroutines of the Jupyter MCP        *)
(* server (add_markdown_cell, add_execute_code_cell,                       *)
(* read_notebook_content, kernel_restart), the connection manager          *)
(* (get_notebook_client, ensure_notebook_connection) and the output        *)
(* normalizer (extract_output).                                            *)
(*                                                                         *)
(* Tool invocations are asyncio tasks.  One action of the model is one     *)
(* atomic run of a task between two suspension points (await start(),      *)
(* await stop(), asyncio.sleep).  Every call into the document or kernel   *)
(* collaborator may raise; the outcome is chosen nondeterministically.     *)
(*                                                                         *)
(* A Python string is a sequence of string tokens (concatenation is \o),   *)
(* a list is a sequence, a dict is a function on its keys, except the      *)
(* MIME bundle "data", an insertion-ordered sequence of [k, v] pairs.      *)
(***************************************************************************)
EXTENDS Integers, Sequences, FiniteSets, TLC

\* ---------------------------------------------------------------- bounds
MaxCalls == 2        \* tool invocations in one behaviour, served one at a time
MaxShortCalls == 3   \* tool invocations in one behaviour, two at a time
MaxHandles == 3      \* NbModelClient objects constructed in one behaviour
MaxKernels == 2      \* KernelClient objects constructed in one behaviour
MaxCells == 3        \* cells the document ever holds at once
MaxOutputs == 2      \* output records the kernel adds to one cell
MaxRemoves == 1      \* cells removed by another editor of the document

\* ------------------------------------------------------- program constants
max_retries == 3
max_wait_time == 30
\* check_interval = 0.5 s = check_interval_num / check_interval_den; waited is
\* kept in units of 1 / check_interval_den seconds, so the arithmetic is exact
\* (0.5 is exact in binary floating point as well).
check_interval_num == 1
check_interval_den == 2

Procs == {1, 2}
None == 0
Handles == 1..MaxHandles
Kernels == 1..MaxKernels

ToolOps == {"add_markdown_cell", "add_execute_code_cell",
            "read_notebook_content", "kernel_restart"}
\* mutant: read_notebook_content wrapped in the retry loop as well
RetryOps_WithRead == {"add_markdown_cell", "add_execute_code_cell",
                      "read_notebook_content"}
\* the tools whose body is the loop for attempt in range(max_retries)
RetryOps == {"add_markdown_cell", "add_execute_code_cell"}

MarkdownInputs == {"# Title"}
CodeInputs == {"1+1"}

VARIABLES
    notebook_client, \* the module global: None or a session handle
    kernel,          \* the module global: the current kernel handle
    hstatus,         \* session handle -> "unused" | "starting" | "open" | "failed" | "stopped"
    kstatus,         \* kernel handle -> "unused" | "new" | "started" | "stopped"
    doc,             \* the shared document: ydoc._ycells
    executing,       \* indices of cells submitted to the kernel
    removes,         \* cells removed so far by another editor
    calls,           \* tool invocations made so far
    op,              \* per task: the tool it runs
    cell_content,    \* per task: the tool's argument
    pc,              \* per task: the suspension point it waits at
    attempt,         \* per task: the loop variable of the retry loop
    notebook,        \* per task: the local variable notebook
    cell_index,      \* per task: the local variable cell_index
    waited,          \* per task: the local variable waited
    awaited,         \* per task: the handle whose start() or stop() is awaited
    result,          \* per task: the returned value
    ens,             \* per task: observation of its latest ensure_notebook_connection call
    lastFault,       \* per task: the exception that ended its latest failed attempt
    lastPoll,        \* per task: what the latest poll iteration saw
    appended,        \* per task: cells it appended in this invocation
    lastEns,         \* the latest completed ensure_notebook_connection call
    out_record,      \* an output record handed to extract_output
    display          \* what extract_output gave for it: <<>> before the call

vars == <<notebook_client, kernel, hstatus, kstatus, doc, executing, removes,
          calls, op, cell_content, pc, attempt, notebook, cell_index, waited,
          awaited, result, ens, lastFault, lastPoll, appended, lastEns,
          out_record, display>>

\* ------------------------------------------------------------ extract_output
TextPlain == "text/plain"
TextHtml == "text/html"
ImagePng == "image/png"

Has(d, k) == k \in DOMAIN d
\* dict.get(key, default)
Get(d, k, default) == IF Has(d, k) THEN d[k] ELSE default
\* key in data, data[key], list(data.keys()) for the ordered MIME bundle
InData(data, k) == \E i \in 1..Len(data) : data[i].k = k
DataAt(data, k) == data[CHOOSE i \in 1..Len(data) : data[i].k = k].v
DataKeys(data) == [i \in 1..Len(data) |-> data[i].k]

Returned(v) == [raised |-> FALSE, value |-> v]
Raised(e) == [raised |-> TRUE, value |-> e]

\* mutant: the HTML representation is tested before the plain text
extract_output_HtmlFirst(output) ==
    LET output_type == Get(output, "output_type", "None") IN
    IF output_type = "stream" THEN Returned(Get(output, "text", <<>>))
    ELSE IF output_type \in {"display_data", "execute_result"} THEN
        LET data == Get(output, "data", <<>>) IN
        IF InData(data, TextHtml) THEN Returned(<<"[HTML Output]">>)
        ELSE IF InData(data, TextPlain) THEN Returned(DataAt(data, TextPlain))
        ELSE IF InData(data, ImagePng) THEN Returned(<<"[Image Output (PNG)]">>)
        ELSE Returned(<<"[", output_type, " Data: keys=[">> \o DataKeys(data) \o <<"]]">>)
    ELSE IF output_type = "error" THEN
        IF Has(output, "traceback") THEN Returned(output["traceback"])
        ELSE Raised("KeyError: 'traceback'")
    ELSE Returned(<<"[Unknown output type: ", output_type, "]">>)

\* extract_output (src/mcp.py:74-98): Returned(string) or Raised(exception)
extract_output(output) ==
    LET output_type == Get(output, "output_type", "None") IN
    IF output_type = "stream" THEN Returned(Get(output, "text", <<>>))
    ELSE IF output_type \in {"display_data", "execute_result"} THEN
        LET data == Get(output, "data", <<>>) IN
        IF InData(data, TextPlain) THEN Returned(DataAt(data, TextPlain))
        ELSE IF InData(data, TextHtml) THEN Returned(<<"[HTML Output]">>)
        ELSE IF InData(data, ImagePng) THEN Returned(<<"[Image Output (PNG)]">>)
        ELSE Returned(<<"[", output_type, " Data: keys=[">> \o DataKeys(data) \o <<"]]">>)
    ELSE IF output_type = "error" THEN
        IF Has(output, "traceback") THEN Returned(output["traceback"])
        ELSE Raised("KeyError: 'traceback'")
    ELSE Returned(<<"[Unknown output type: ", output_type, "]">>)

\* [extract_output(output) for output in outputs]: the first exception ends it
RECURSIVE ExtractAll(_)
ExtractAll(outputs) ==
    IF outputs = <<>> THEN Returned(<<>>)
    ELSE LET h == extract_output(Head(outputs)) IN
         IF h.raised THEN h
         ELSE LET t == ExtractAll(Tail(outputs)) IN
              IF t.raised THEN t ELSE Returned(<<h.value>> \o t.value)

\* what the kernel writes, in this order, into the outputs of an executed cell
KernelScript ==
    << [output_type |-> "execute_result", data |-> <<[k |-> TextPlain, v |-> <<"2">>]>>],
       [output_type |-> "stream", text |-> <<"hi">>],
       [output_type |-> "display_data", data |-> <<[k |-> TextHtml, v |-> <<"<b>">>]>>] >>
KernelRecord(n) == KernelScript[((n - 1) % Len(KernelScript)) + 1]

\* ------------------------------------------------------------------ cells
NewCell(type, source) ==
    IF type = "code"
    THEN [cell_type |-> type, source |-> source, outputs |-> <<>>]
    ELSE [cell_type |-> type, source |-> source]

\* ydoc._ycells[i] for the 0-based index i
CellAt(d, i) == d[i + 1]

\* --------------------------------------------------------- the task record
(* A run of task p is written as in the source: operators that take the    *)
(* record s of everything the run can read or write (the globals and p's   *)
(* locals) and the set o of collaborator calls that raise in this run,     *)
(* and give the record when the run suspends or returns.                   *)
Snapshot(p) ==
    [nc |-> notebook_client, kernel |-> kernel, hs |-> hstatus, ks |-> kstatus,
     doc |-> doc, ex |-> executing, lastEns |-> lastEns,
     op |-> op[p], cell_content |-> cell_content[p], pc |-> pc[p],
     attempt |-> attempt[p], notebook |-> notebook[p],
     cell_index |-> cell_index[p], waited |-> waited[p],
     awaited |-> awaited[p], result |-> result[p], ens |-> ens[p],
     lastFault |-> lastFault[p], lastPoll |-> lastPoll[p],
     appended |-> appended[p], over |-> FALSE]

Commit(p, s) ==
    /\ ~s.over
    /\ notebook_client' = s.nc
    /\ kernel' = s.kernel
    /\ hstatus' = s.hs
    /\ kstatus' = s.ks
    /\ doc' = s.doc
    /\ executing' = s.ex
    /\ lastEns' = s.lastEns
    /\ pc' = [pc EXCEPT ![p] = s.pc]
    /\ attempt' = [attempt EXCEPT ![p] = s.attempt]
    /\ notebook' = [notebook EXCEPT ![p] = s.notebook]
    /\ cell_index' = [cell_index EXCEPT ![p] = s.cell_index]
    /\ waited' = [waited EXCEPT ![p] = s.waited]
    /\ awaited' = [awaited EXCEPT ![p] = s.awaited]
    /\ result' = [result EXCEPT ![p] = s.result]
    /\ ens' = [ens EXCEPT ![p] = s.ens]
    /\ lastFault' = [lastFault EXCEPT ![p] = s.lastFault]
    /\ lastPoll' = [lastPoll EXCEPT ![p] = s.lastPoll]
    /\ appended' = [appended EXCEPT ![p] = s.appended]
    /\ UNCHANGED <<removes, calls, op, cell_content, out_record, display>>

\* ------------------------------------------------- the tools' except clauses
MarkdownAdded == <<"Jupyter Markdown cell added.">>
KernelRestarted == <<"Jupyter kernel restarted successfully">>

\* mutants of the retry test: one attempt too many, one too few
RetryAllowed_More(a) == a < max_retries
RetryAllowed_Fewer(a) == a < max_retries - 2

\* attempt < max_retries - 1 (src/mcp.py:140, 205)
RetryAllowed(a) == a < max_retries - 1

\* the value returned by the except clause that ends the invocation
ErrorResult(o, e) ==
    CASE o = "add_markdown_cell" ->
            <<"Error adding markdown cell after ", ToString(max_retries), " attempts: ", e>>
      [] o = "add_execute_code_cell" ->
            << <<"Error executing code cell after ", ToString(max_retries), " attempts: ", e>> >>
      [] o = "read_notebook_content" ->
            [error |-> e, cells |-> <<>>, total_cells |-> 0]
      [] o = "kernel_restart" ->
            <<"Error restarting kernel: ", e>>

\* mutant: kernel.start() of line 288 placed after the try statement
Catches_NotStart(o, e) == e # "kernel.start"

\* whether the statement that raises e in tool o lies inside the tool's
\* try ... except Exception: every statement of the four bodies does
Catches(o, e) == TRUE

\* except Exception as e: of the four tools
ToolExcept(s, e) ==
    LET s1 == [s EXCEPT !.lastFault = e] IN
    IF ~Catches(s.op, e) THEN [s1 EXCEPT !.pc = "raised"]
    ELSE IF s.op \in RetryOps /\ RetryAllowed(s.attempt)
    THEN [s1 EXCEPT !.nc = None, !.pc = "backoff"]
    ELSE [s1 EXCEPT !.pc = "done", !.result = ErrorResult(s.op, e)]

\* ------------------------------------------------------- the tools' bodies
\* the entry appended for a code cell (src/mcp.py:238-243)
CodeEntry(i, cell_type, content, str_outputs) ==
    [index |-> i, type |-> cell_type, content |-> content, outputs |-> str_outputs]

\* mutant: every entry carries an outputs field
OtherEntry_WithOutputs(i, cell_type, content) ==
    [index |-> i, type |-> cell_type, content |-> content, outputs |-> <<>>]

\* the entry appended for any other cell (src/mcp.py:245-249)
OtherEntry(i, cell_type, content) ==
    [index |-> i, type |-> cell_type, content |-> content]

\* the loop of read_notebook_content (src/mcp.py:229-249)
RECURSIVE ReadLoop(_, _, _)
ReadLoop(d, i, cells) ==
    IF i = Len(d) THEN Returned(cells)
    ELSE LET cell_type == CellAt(d, i)["cell_type"]
             content == CellAt(d, i)["source"]
         IN  IF cell_type = "code"
             THEN LET str_outputs == ExtractAll(CellAt(d, i)["outputs"]) IN
                  IF str_outputs.raised THEN str_outputs
                  ELSE ReadLoop(d, i + 1, Append(cells,
                          CodeEntry(i, cell_type, content, str_outputs.value)))
             ELSE ReadLoop(d, i + 1, Append(cells,
                          OtherEntry(i, cell_type, content)))

\* read_notebook_content after line 223 (src/mcp.py:226-255)
ReadBody(s, o) ==
    IF s.notebook = None THEN ToolExcept(s, "NoneType")
    ELSE IF "doc" \in o THEN ToolExcept(s, "doc")
    ELSE LET cells == ReadLoop(s.doc, 0, <<>>) IN
         IF cells.raised THEN ToolExcept(s, cells.value)
         ELSE [s EXCEPT !.pc = "done",
                        !.result = [cells |-> cells.value,
                                    total_cells |-> Len(cells.value)]]

\* add_markdown_cell from line 119 to the sleep of line 123
MarkdownBody(s, o) ==
    IF s.notebook = None THEN ToolExcept(s, "NoneType")
    ELSE IF "append" \in o THEN ToolExcept(s, "append")
    ELSE IF Len(s.doc) >= MaxCells THEN [s EXCEPT !.over = TRUE]
    ELSE [s EXCEPT !.doc = Append(@, NewCell("markdown", s.cell_content)),
                   !.cell_index = Len(s.doc),
                   !.appended = @ + 1,
                   !.pc = "verify"]

\* add_markdown_cell after the sleep (src/mcp.py:126-136)
MarkdownVerify(s, o) ==
    IF "doc" \in o THEN ToolExcept(s, "doc")
    ELSE IF s.cell_index < Len(s.doc)
    THEN IF CellAt(s.doc, s.cell_index)["cell_type"] = "markdown"
         THEN [s EXCEPT !.pc = "done", !.result = MarkdownAdded]
         ELSE [s EXCEPT !.pc = "done", !.result = MarkdownAdded]
    ELSE [s EXCEPT !.pc = "done", !.result = MarkdownAdded]

\* add_execute_code_cell from line 168 to the first sleep of line 180
ExecuteBody(s, o) ==
    IF s.notebook = None THEN ToolExcept(s, "NoneType")
    ELSE IF "append" \in o THEN ToolExcept(s, "append")
    ELSE IF Len(s.doc) >= MaxCells THEN [s EXCEPT !.over = TRUE]
    ELSE LET s1 == [s EXCEPT !.doc = Append(@, NewCell("code", s.cell_content)),
                             !.cell_index = Len(s.doc),
                             !.appended = @ + 1]
         IN  IF "execute" \in o THEN ToolExcept(s1, "execute")
             ELSE [s1 EXCEPT !.ex = @ \cup {s1.cell_index},
                             !.waited = 0,
                             !.lastPoll = "none",
                             !.pc = "poll"]

\* mutant: while waited <= max_wait_time
LoopContinues_Inclusive(w) == w <= max_wait_time * check_interval_den

\* while waited < max_wait_time (src/mcp.py:179)
LoopContinues(w) == w < max_wait_time * check_interval_den

\* the try of one poll iteration (src/mcp.py:183-190): what it saw
PollSees(s, o) ==
    IF "poll" \in o THEN "fault"
    ELSE IF s.cell_index < Len(s.doc)
    THEN IF ~Has(CellAt(s.doc, s.cell_index), "outputs") THEN "fault"
         ELSE IF CellAt(s.doc, s.cell_index)["outputs"] # <<>> THEN "outputs"
         ELSE "empty"
    ELSE "range"

\* mutant: the loop has no break
Breaks_Never(seen) == FALSE

\* if outputs: break (src/mcp.py:187-188)
Breaks(seen) == seen = "outputs"

\* the final read (src/mcp.py:196-201)
FinalRead(s, o) ==
    IF "doc" \in o THEN ToolExcept(s, "doc")
    ELSE IF ~(s.cell_index < Len(s.doc)) THEN ToolExcept(s, "IndexError")
    ELSE IF ~Has(CellAt(s.doc, s.cell_index), "outputs")
    THEN ToolExcept(s, "KeyError: 'outputs'")
    ELSE LET str_outputs == ExtractAll(CellAt(s.doc, s.cell_index)["outputs"]) IN
         IF str_outputs.raised THEN ToolExcept(s, str_outputs.value)
         ELSE [s EXCEPT !.pc = "done", !.result = str_outputs.value]

\* mutant: a fault of the probe of one iteration reaches the tool's except
PollStep_Propagates(s, o) ==
    LET w == s.waited + check_interval_num
        seen == PollSees(s, o)
        s1 == [s EXCEPT !.waited = w, !.lastPoll = seen]
    IN  IF seen = "fault" THEN ToolExcept(s1, "poll")
        ELSE IF Breaks(seen) \/ ~LoopContinues(w) THEN FinalRead(s1, o)
        ELSE s1

\* one wake-up of the sleep of line 180: the rest of the iteration, then
\* either the next sleep or the code after the loop
PollStep(s, o) ==
    LET w == s.waited + check_interval_num
        seen == PollSees(s, o)
        s1 == [s EXCEPT !.waited = w, !.lastPoll = seen]
    IN  IF Breaks(seen) \/ ~LoopContinues(w) THEN FinalRead(s1, o)
        ELSE s1

\* the statements of a tool after ensure_notebook_connection has returned
Body(s, o) ==
    CASE s.op = "add_markdown_cell" -> MarkdownBody(s, o)
      [] s.op = "add_execute_code_cell" -> ExecuteBody(s, o)
      [] s.op = "read_notebook_content" -> ReadBody(s, o)

\* ------------------------------------------------------ connection manager
\* state: "none" | "running" | "returned" | "raised"; pre and post: the shared
\* handle when the call began and when it ended; probe: "none" | "ok" |
\* "fault"; opens: calls of start(); made: the handle it constructed last;
\* started: whether that handle's start() completed; ret: the value returned;
\* prev: how the call completed before this one (by any task) ended
NoCall == [state |-> "none", probe |-> "none", ret |-> None, post |-> None]
NoEnsure == [state |-> "none", pre |-> None, probe |-> "none", opens |-> 0,
             made |-> None, started |-> FALSE, ret |-> None, post |-> None,
             prev |-> NoCall]

Unused(hs) == {h \in DOMAIN hs : hs[h] = "unused"}
Fresh(hs) == CHOOSE h \in Unused(hs) : \A g \in Unused(hs) : h <= g

\* ensure_notebook_connection returns nb to the tool
EnsureReturn(s, nb, o) ==
    Body([s EXCEPT !.notebook = nb,
                   !.awaited = None,
                   !.ens.state = "returned",
                   !.ens.ret = nb,
                   !.ens.post = s.nc,
                   !.ens.prev = s.lastEns,
                   !.lastEns = [state |-> "returned", probe |-> s.ens.probe,
                                ret |-> nb, post |-> s.nc]],
         o)

\* ensure_notebook_connection raises e to the tool
EnsureRaise(s, e) ==
    ToolExcept([s EXCEPT !.awaited = None,
                         !.ens.state = "raised",
                         !.ens.post = s.nc,
                         !.ens.prev = s.lastEns,
                         !.lastEns = [state |-> "raised", probe |-> s.ens.probe,
                                      ret |-> None, post |-> s.nc]],
               e)

\* get_notebook_client up to await notebook_client.start() (src/mcp.py:46-51);
\* at is "start_try" when called from line 64, "start_handler" from line 72.
\* Both callers have just seen or made notebook_client None.
GetNotebookClient(s, at) ==
    IF Unused(s.hs) = {} THEN [s EXCEPT !.over = TRUE]
    ELSE LET h == Fresh(s.hs) IN
         [s EXCEPT !.hs[h] = "starting",
                   !.nc = h,
                   !.awaited = h,
                   !.ens.opens = @ + 1,
                   !.ens.made = h,
                   !.pc = at]

\* what the except clause of ensure_notebook_connection covers: the try of
\* lines 62-68 holds the call of line 64, so a failed open of line 64 is
\* caught by line 69 and opened once more by line 72
EnsureCatches(at) == at = "start_try"

\* mutant: a cached handle whose probe succeeded is replaced all the same
EnsureEntry_Reopen(s, o) ==
    LET s0 == [s EXCEPT !.ens = [NoEnsure EXCEPT !.state = "running", !.pre = s.nc]] IN
    IF s.nc = None THEN GetNotebookClient(s0, "start_try")
    ELSE IF "probe" \in o
    THEN GetNotebookClient([s0 EXCEPT !.ens.probe = "fault", !.nc = None],
                           "start_handler")
    ELSE GetNotebookClient([s0 EXCEPT !.ens.probe = "ok", !.nc = None],
                           "start_handler")

\* ensure_notebook_connection up to its first await or its return
EnsureEntry(s, o) ==
    LET s0 == [s EXCEPT !.ens = [NoEnsure EXCEPT !.state = "running", !.pre = s.nc]] IN
    IF s.nc = None THEN GetNotebookClient(s0, "start_try")
    ELSE IF "probe" \in o
    THEN GetNotebookClient([s0 EXCEPT !.ens.probe = "fault", !.nc = None],
                           "start_handler")
    ELSE EnsureReturn([s0 EXCEPT !.ens.probe = "ok"], s0.nc, o)

\* the value get_notebook_client returns after the await (src/mcp.py:53)
OpenedClient(s) == s.nc

\* the wake-up of await notebook_client.start() (src/mcp.py:51-57, 69-72)
StartResume(s, o) ==
    LET h == s.awaited IN
    IF "open" \in o
    THEN LET s1 == [s EXCEPT !.hs[h] = "failed", !.nc = None] IN
         IF EnsureCatches(s.pc) THEN GetNotebookClient(s1, "start_handler")
         ELSE EnsureRaise(s1, "open")
    ELSE LET s1 == [s EXCEPT !.hs[h] = IF @ = "starting" THEN "open" ELSE @,
                             !.ens.started = TRUE] IN
         EnsureReturn(s1, OpenedClient(s1), o)

\* ----------------------------------------------------------- kernel_restart
UnusedK(ks) == {k \in DOMAIN ks : ks[k] = "unused"}
FreshK(ks) == CHOOSE k \in UnusedK(ks) : \A g \in UnusedK(ks) : k <= g

\* kernel = KernelClient(...); kernel.start() (src/mcp.py:287-291)
NewKernel(s, o) ==
    IF UnusedK(s.ks) = {} THEN [s EXCEPT !.over = TRUE]
    ELSE LET k == FreshK(s.ks) IN
         IF "kernel.start" \in o
         THEN ToolExcept([s EXCEPT !.kernel = k, !.ks[k] = "new"], "kernel.start")
         ELSE [s EXCEPT !.kernel = k, !.ks[k] = "started",
                        !.pc = "done", !.result = KernelRestarted]

\* kernel_restart up to await notebook_client.stop() (src/mcp.py:276-281)
RestartEntry(s, o) ==
    IF "kernel.stop" \in o THEN ToolExcept(s, "kernel.stop")
    ELSE LET s1 == [s EXCEPT !.ks[s.kernel] = "stopped"] IN
         IF s1.nc # None THEN [s1 EXCEPT !.awaited = s1.nc, !.pc = "stopping"]
         ELSE NewKernel(s1, o)

\* mutant: a failed stop of the session reaches the tool's except clause
StopResume_Propagates(s, o) ==
    IF "stop" \in o THEN ToolExcept([s EXCEPT !.awaited = None], "stop")
    ELSE NewKernel([s EXCEPT !.hs[s.awaited] = "stopped", !.awaited = None,
                             !.nc = None], o)

\* the wake-up of await notebook_client.stop() (src/mcp.py:281-291): the
\* bare except swallows a failed stop
StopResume(s, o) ==
    LET s1 == [s EXCEPT !.hs[s.awaited] = IF "stop" \in o THEN @ ELSE "stopped",
                        !.awaited = None,
                        !.nc = None]
    IN  NewKernel(s1, o)

\* ------------------------------------------------------------------ actions
NoResult == <<"(pending)">>

\* the state of the module after import, before any tool call
Started ==
    /\ notebook_client = None
    /\ kernel = 1
    /\ hstatus = [h \in Handles |-> "unused"]
    /\ kstatus = [k \in Kernels |-> IF k = 1 THEN "started" ELSE "unused"]
    /\ doc = <<>>
    /\ executing = {}
    /\ removes = 0
    /\ calls = 0
    /\ op = [p \in Procs |-> "none"]
    /\ cell_content = [p \in Procs |-> ""]
    /\ pc = [p \in Procs |-> "idle"]
    /\ attempt = [p \in Procs |-> 0]
    /\ notebook = [p \in Procs |-> None]
    /\ cell_index = [p \in Procs |-> 0]
    /\ waited = [p \in Procs |-> 0]
    /\ awaited = [p \in Procs |-> None]
    /\ result = [p \in Procs |-> NoResult]
    /\ ens = [p \in Procs |-> NoEnsure]
    /\ lastFault = [p \in Procs |-> ""]
    /\ lastPoll = [p \in Procs |-> "none"]
    /\ appended = [p \in Procs |-> 0]
    /\ lastEns = NoCall

Init ==
    /\ Started
    /\ out_record = KernelRecord(1)
    /\ display = <<>>

Inputs(o) ==
    CASE o = "add_markdown_cell" -> MarkdownInputs
      [] o = "add_execute_code_cell" -> CodeInputs
      [] OTHER -> {""}

InFlight == {q \in Procs : pc[q] \notin {"idle", "done", "raised"}}

\* the client calls one of the tools ops while fewer than width calls are in
\* flight and fewer than budget were made: a task is created for the
\* coroutine (in the lowest free slot)
Call(p, ops, width, budget) ==
    /\ pc[p] \in {"idle", "done"}
    /\ calls < budget
    /\ Cardinality(InFlight) < width
    /\ \A q \in Procs : q < p => q \in InFlight
    /\ \E o \in ops : \E c \in Inputs(o) :
          /\ op' = [op EXCEPT ![p] = o]
          /\ cell_content' = [cell_content EXCEPT ![p] = c]
    /\ calls' = calls + 1
    /\ pc' = [pc EXCEPT ![p] = "called"]
    /\ attempt' = [attempt EXCEPT ![p] = 0]
    /\ notebook' = [notebook EXCEPT ![p] = None]
    /\ cell_index' = [cell_index EXCEPT ![p] = 0]
    /\ waited' = [waited EXCEPT ![p] = 0]
    /\ awaited' = [awaited EXCEPT ![p] = None]
    /\ result' = [result EXCEPT ![p] = NoResult]
    /\ ens' = [ens EXCEPT ![p] = NoEnsure]
    /\ lastFault' = [lastFault EXCEPT ![p] = ""]
    /\ lastPoll' = [lastPoll EXCEPT ![p] = "none"]
    /\ appended' = [appended EXCEPT ![p] = 0]
    /\ UNCHANGED <<notebook_client, kernel, hstatus, kstatus, doc, executing,
                   removes, lastEns, out_record, display>>

\* a tool call arrives when no other is in flight
Invoke(p) == Call(p, ToolOps, 1, MaxCalls)

\* a tool call arrives while another may be in flight
InvokeConcurrent(p) ==
    Call(p, ToolOps \ {"add_execute_code_cell"}, 2, MaxShortCalls)

\* one iteration of the retry loop (the only one of read_notebook_content)
\* from its start to its first suspension or its return
Attempt(p) ==
    /\ pc[p] \in {"called", "backoff"}
    /\ op[p] # "kernel_restart"
    /\ \E o \in SUBSET {"probe", "append", "execute", "doc"} :
          Commit(p, EnsureEntry(
              [Snapshot(p) EXCEPT !.attempt = IF pc[p] = "backoff" THEN @ + 1 ELSE @,
                                  !.lastFault = "",
                                  !.lastPoll = "none"],
              o))

\* await notebook_client.start() completes or raises
StartDone(p) ==
    /\ pc[p] \in {"start_try", "start_handler"}
    /\ \E o \in SUBSET {"open", "append", "execute", "doc"} :
          Commit(p, StartResume(Snapshot(p), o))

\* a task woken from a sleep: the observation of its ensure call, read by
\* the properties in the state where the call ended, is dropped
Resumed(p) == [Snapshot(p) EXCEPT !.ens = NoEnsure]

\* asyncio.sleep(0.5) of add_markdown_cell is over
Verify(p) ==
    /\ pc[p] = "verify"
    /\ \E o \in SUBSET {"doc"} : Commit(p, MarkdownVerify(Resumed(p), o))

\* asyncio.sleep(check_interval) of add_execute_code_cell is over
Poll(p) ==
    /\ pc[p] = "poll"
    /\ \E o \in SUBSET {"poll", "doc"} : Commit(p, PollStep(Resumed(p), o))

\* kernel_restart from its start to its suspension or its return
Restart(p) ==
    /\ pc[p] = "called"
    /\ op[p] = "kernel_restart"
    /\ \E o \in SUBSET {"kernel.stop", "kernel.start"} :
          Commit(p, RestartEntry(Snapshot(p), o))

\* await notebook_client.stop() completes or raises
StopDone(p) ==
    /\ pc[p] = "stopping"
    /\ \E o \in SUBSET {"stop", "kernel.start"} : Commit(p, StopResume(Snapshot(p), o))

\* the kernel writes an output record into a cell it was given to execute
KernelOutput ==
    /\ \E i \in executing :
          /\ i < Len(doc)
          /\ Has(CellAt(doc, i), "outputs")
          /\ Len(CellAt(doc, i)["outputs"]) < MaxOutputs
          /\ doc' = [doc EXCEPT ![i + 1]["outputs"] =
                                    Append(@, KernelRecord(Len(@) + 1))]
    /\ UNCHANGED <<notebook_client, kernel, hstatus, kstatus, executing, removes,
                   calls, op, cell_content, pc, attempt, notebook, cell_index,
                   waited, awaited, result, ens, lastFault, lastPoll, appended,
                   lastEns, out_record, display>>

\* another editor of the shared document deletes its last cell
ExternalRemove ==
    /\ removes < MaxRemoves
    /\ doc # <<>>
    /\ doc' = SubSeq(doc, 1, Len(doc) - 1)
    /\ executing' = executing \ {Len(doc) - 1}
    /\ removes' = removes + 1
    /\ UNCHANGED <<notebook_client, kernel, hstatus, kstatus, calls, op,
                   cell_content, pc, attempt, notebook, cell_index, waited,
                   awaited, result, ens, lastFault, lastPoll, appended, lastEns,
                   out_record, display>>

Next ==
    \/ \E p \in Procs : Invoke(p)
    \/ \E p \in Procs : Attempt(p)
    \/ \E p \in Procs : StartDone(p)
    \/ \E p \in Procs : Verify(p)
    \/ \E p \in Procs : Poll(p)
    \/ \E p \in Procs : Restart(p)
    \/ \E p \in Procs : StopDone(p)
    \/ KernelOutput

\* tool calls served one after the other
Spec == Init /\ [][Next]_vars

\* two tool calls in flight at once (spec.md section 5: invocations are not
\* serialized; the tasks interleave at their suspension points).  The calls
\* are those whose only suspension points are the awaits on the session and
\* the fixed sleeps.
NextConcurrent ==
    \/ \E p \in Procs : InvokeConcurrent(p)
    \/ \E p \in Procs : Attempt(p)
    \/ \E p \in Procs : StartDone(p)
    \/ \E p \in Procs : Verify(p)
    \/ \E p \in Procs : Restart(p)
    \/ \E p \in Procs : StopDone(p)

ConcurrentSpec == Init /\ [][NextConcurrent]_vars

\* tool calls served one after the other on a document that another editor
\* changes as well
NextEdited == Next \/ ExternalRemove

EditedSpec == Init /\ [][NextEdited]_vars

\* ---------------------------------------------------- extract_output alone
\* the representation keys of a MIME bundle and the values they carry
BundleKeys == <<TextPlain, TextHtml, ImagePng, "application/json">>
BundleValue(k) ==
    CASE k = TextPlain -> <<"2">>
      [] k = TextHtml -> <<"<b>2</b>">>
      [] k = ImagePng -> <<"iVBORw0KGgo=">>
      [] OTHER -> <<"{}">>

\* the bundle with the keys S, inserted in the order of BundleKeys or in the
\* opposite order
Bundle(S, reversed) ==
    LET n == Len(BundleKeys)
        all == [i \in 1..n |->
                   LET k == BundleKeys[IF reversed THEN n + 1 - i ELSE i]
                   IN  [k |-> k, v |-> BundleValue(k)]]
    IN  SelectSeq(all, LAMBDA e : e.k \in S)
Bundles ==
    {Bundle(S, r) : S \in SUBSET {BundleKeys[i] : i \in 1..Len(BundleKeys)},
                    r \in BOOLEAN}

\* a dict with the key k set to v
With(r, k, v) == [x \in DOMAIN r \cup {k} |-> IF x = k THEN v ELSE r[x]]
Maybe(r, k, present, v) == IF present THEN With(r, k, v) ELSE r

\* the output records: every kind (also one extract_output does not know
\* and a record without output_type), with every subset of the payload
\* fields text, data and traceback
OutputKinds == {"stream", "display_data", "execute_result", "error", "update_display_data"}
OutputRecords ==
    {Maybe(Maybe(Maybe(Maybe([metadata |-> <<>>],
         "output_type", t # "", t),
         "text", x, <<"hi">>),
         "traceback", b, <<"Traceback (most recent call last)", "ZeroDivisionError">>),
         "data", h, d) :
       t \in OutputKinds \cup {""}, x \in BOOLEAN, b \in BOOLEAN,
       h \in BOOLEAN, d \in Bundles}

NormalizeInit ==
    /\ Started
    /\ out_record \in OutputRecords
    /\ display = <<>>

\* extract_output(out_record) is called
Normalize ==
    /\ display = <<>>
    /\ display' = <<extract_output(out_record)>>
    /\ UNCHANGED <<notebook_client, kernel, hstatus, kstatus, doc, executing,
                   removes, calls, op, cell_content, pc, attempt, notebook,
                   cell_index, waited, awaited, result, ens, lastFault, lastPoll,
                   appended, lastEns, out_record>>

NormalizeNext == Normalize

\* extract_output applied to one output record
NormalizeSpec == NormalizeInit /\ [][NormalizeNext]_vars


\* ================================================================== claims
Returns(p) == pc[p] = "done"
\* the attempt that ended the invocation of task p did not fault
Clean(p) == lastFault[p] = ""

\* C1: every tool invocation, whatever faults the document and kernel
\* collaborators raise (open, probe, append, execute, output read, stop,
\* start), is idle, suspended inside the tool or has returned a value: no
\* fault leaves a tool as an exception, and a fault that ends an invocation
\* is turned into the tool's error text or error payload.
C1_NoFaultEscapes ==
    \A p \in Procs :
        /\ pc[p] # "raised"
        /\ Returns(p) /\ Clean(p) =>
              \/ op[p] = "add_markdown_cell"
                    /\ result[p] = <<"Jupyter Markdown cell added.">>
              \/ op[p] = "add_execute_code_cell"
                    /\ \A i \in 1..Len(result[p]) : Len(result[p][i]) = 1
              \/ op[p] = "read_notebook_content"
                    /\ DOMAIN result[p] = {"cells", "total_cells"}
              \/ op[p] = "kernel_restart"
                    /\ result[p] = <<"Jupyter kernel restarted successfully">>
        /\ Returns(p) /\ ~Clean(p) =>
              \/ op[p] = "add_markdown_cell" /\ result[p][4] = lastFault[p]
              \/ op[p] = "add_execute_code_cell" /\ result[p][1][4] = lastFault[p]
              \/ op[p] = "read_notebook_content" /\ result[p]["error"] = lastFault[p]
              \/ op[p] = "kernel_restart" /\ result[p][2] = lastFault[p]

\* a kernel_restart whose kernel.start() raised has returned the error text
C1_Witness ==
    \E p \in Procs :
        /\ Returns(p)
        /\ op[p] = "kernel_restart"
        /\ lastFault[p] = "kernel.start"
        /\ result[p] = <<"Error restarting kernel: ", "kernel.start">>

\* C2: add_markdown_cell and add_execute_code_cell make at most max_retries
\* = 3 attempts (a task in its backoff sleep has a further attempt ahead, so
\* it has made at most 2), and an invocation whose first two attempts faulted and whose
\* third attempt did not returns that attempt's result (the success string,
\* the list of display strings), not an error value.
C2_ThirdAttemptSucceeds ==
    \A p \in Procs :
        op[p] \in RetryOps =>
            /\ attempt[p] + 1 <= 3
            /\ pc[p] = "backoff" => attempt[p] + 2 <= 3
            /\ Returns(p) /\ attempt[p] + 1 = 3 /\ Clean(p) =>
                  /\ op[p] = "add_markdown_cell" =>
                        result[p] = <<"Jupyter Markdown cell added.">>
                  /\ op[p] = "add_execute_code_cell" =>
                        \A i \in 1..Len(result[p]) :
                            Head(result[p][i]) # "Error executing code cell after "

\* add_execute_code_cell returned ["2"] from its third attempt
C2_Witness ==
    \E p \in Procs :
        /\ Returns(p)
        /\ op[p] = "add_execute_code_cell"
        /\ attempt[p] = 2
        /\ Clean(p)
        /\ result[p] = << <<"2">> >>

\* C3: when all three attempts of add_markdown_cell or add_execute_code_cell
\* fault, the invocation returns the failure value that embeds the attempt
\* count 3 and the description of the fault of the third attempt; a failure
\* value is returned only from the third attempt.
C3_TerminalFailure ==
    \A p \in Procs :
        op[p] \in RetryOps /\ Returns(p) =>
            /\ ~Clean(p) =>
                  /\ attempt[p] + 1 = 3
                  /\ op[p] = "add_markdown_cell" =>
                        result[p] = <<"Error adding markdown cell after ", "3",
                                      " attempts: ", lastFault[p]>>
                  /\ op[p] = "add_execute_code_cell" =>
                        result[p] = << <<"Error executing code cell after ", "3",
                                         " attempts: ", lastFault[p]>> >>
            /\ Clean(p) =>
                  /\ op[p] = "add_markdown_cell" =>
                        result[p] = <<"Jupyter Markdown cell added.">>
                  /\ op[p] = "add_execute_code_cell" =>
                        \A i \in 1..Len(result[p]) :
                            Head(result[p][i]) # "Error executing code cell after "

\* add_execute_code_cell failed three times, the last time at execute_cell
C3_Witness ==
    \E p \in Procs :
        /\ Returns(p)
        /\ op[p] = "add_execute_code_cell"
        /\ attempt[p] = 2
        /\ lastFault[p] = "execute"
        /\ result[p] = << <<"Error executing code cell after ", "3",
                            " attempts: ", "execute">> >>

\* a call of ensure_notebook_connection that found a handle cached and
\* whose probe of it did not fault
CachedHit(e) == e.state = "returned" /\ e.pre # None /\ e.probe = "ok"

\* C4: a call of ensure_notebook_connection that finds a handle cached and
\* whose probe does not fault returns that handle, calls start() on nothing,
\* constructs nothing and leaves the shared handle as it was; so when the
\* call completed just before it returned with the shared handle the same,
\* both calls returned the same handle.
C4_CachedHandleReused ==
    \A p \in Procs :
        CachedHit(ens[p]) =>
            /\ ens[p].ret = ens[p].pre
            /\ ens[p].opens = 0
            /\ ens[p].made = None
            /\ ens[p].post = ens[p].pre
            /\ ens[p].prev.state = "returned" /\ ens[p].prev.post = ens[p].pre =>
                  ens[p].ret = ens[p].prev.ret

\* two calls in a row found the handle cached and returned it
C4_Witness ==
    \E p \in Procs :
        /\ CachedHit(ens[p])
        /\ ens[p].prev.state = "returned"
        /\ ens[p].prev.probe = "ok"
        /\ ens[p].prev.ret = ens[p].ret
        /\ ens[p].ret # None
        /\ notebook_client = ens[p].ret

\* C5: a call of ensure_notebook_connection whose probe of the cached
\* handle faulted and whose start() then succeeded returns the handle it
\* constructed, which is not the discarded one, and that handle is the
\* shared handle when the call returns.
C5_ReconnectReturnsNew ==
    \A p \in Procs :
        /\ ens[p].state = "returned"
        /\ ens[p].pre # None
        /\ ens[p].probe = "fault"
        /\ ens[p].started
        => /\ ens[p].ret # None
           /\ ens[p].ret = ens[p].made
           /\ ens[p].ret # ens[p].pre
           /\ ens[p].post = ens[p].ret

\* C6: at most one session handle whose start() completed and whose stop()
\* was not called exists at any time.
C6_AtMostOneLive ==
    Cardinality({h \in Handles : hstatus[h] = "open"}) <= 1

\* the outputs of the cell task p appended, as the document holds them
OutputsOf(p) == CellAt(doc, cell_index[p])["outputs"]

\* C7: add_execute_code_cell polls while the accumulated wait is below 30 s,
\* that is at most 60 times; an invocation that returned without a fault
\* while its cell has no output waited the 60 polls out and returned the
\* empty list, in the attempt that appended the cell; and an attempt that
\* reached the poll loop ends in a fault only when the final read of the
\* document faults, never because the wait ran out.
C7_SoftTimeout ==
    /\ [](\A p \in Procs :
            op[p] = "add_execute_code_cell" =>
                /\ pc[p] = "poll" => waited[p] < 60
                /\ waited[p] <= 60
                /\ Returns(p) /\ Clean(p) /\ cell_index[p] < Len(doc)
                      /\ OutputsOf(p) = <<>> =>
                      /\ waited[p] = 60
                      /\ result[p] = <<>>
                /\ pc[p] \in {"backoff", "done"} /\ ~Clean(p)
                      /\ lastPoll[p] # "none" =>
                      lastFault[p] = "doc")
    /\ [][\A p \in Procs :
            pc[p] = "poll" /\ pc'[p] # "poll" /\ lastFault'[p] = "" =>
                /\ pc'[p] = "done"
                /\ attempt'[p] = attempt[p]
                /\ lastPoll'[p] = "empty" =>
                      waited'[p] = 60 /\ result'[p] = <<>>]_vars

\* the first attempt waited 60 polls for outputs that never came and
\* returned the empty list
C7_Witness ==
    \E p \in Procs :
        /\ Returns(p)
        /\ op[p] = "add_execute_code_cell"
        /\ attempt[p] = 0
        /\ Clean(p)
        /\ lastPoll[p] = "empty"
        /\ waited[p] = 60
        /\ OutputsOf(p) = <<>>
        /\ result[p] = <<>>

\* the display strings of the first n records the kernel writes
Shown(n) ==
    [i \in 1..n |-> CASE i % 3 = 1 -> <<"2">>
                      [] i % 3 = 2 -> <<"hi">>
                      [] i % 3 = 0 -> <<"[HTML Output]">>]

\* C8: no poll follows the poll that first saw outputs of the appended cell;
\* the step that returns the result of add_execute_code_cell without a
\* fault returns the display strings of exactly the outputs the cell holds
\* in the document at that step, in their order (["2"] for the single
\* execute_result with plain text "2"), and leaves the document as it is.
C8_StopsAtFirstOutputs ==
    /\ [](\A p \in Procs : pc[p] = "poll" => lastPoll[p] # "outputs")
    /\ [][\A p \in Procs :
            pc[p] = "poll" /\ pc'[p] = "done" /\ lastFault'[p] = "" =>
                /\ doc' = doc
                /\ cell_index'[p] = cell_index[p]
                /\ result'[p] = Shown(Len(OutputsOf(p)))
                /\ lastPoll'[p] = "outputs" => result'[p] # <<>>]_vars

\* the poll loop stopped early at the first outputs and ["2"] was returned
C8_Witness ==
    \E p \in Procs :
        /\ Returns(p)
        /\ op[p] = "add_execute_code_cell"
        /\ Clean(p)
        /\ lastPoll[p] = "outputs"
        /\ waited[p] < 60
        /\ result[p] = << <<"2">> >>

\* what read_notebook_content must report of the document d
ReadMatches(r, d) ==
    /\ DOMAIN r = {"cells", "total_cells"}
    /\ r["total_cells"] = Len(d)
    /\ Len(r["cells"]) = Len(d)
    /\ \A i \in 1..Len(d) :
          /\ r["cells"][i]["index"] = i - 1
          /\ r["cells"][i]["type"] = d[i]["cell_type"]
          /\ r["cells"][i]["content"] = d[i]["source"]
          /\ ("outputs" \in DOMAIN r["cells"][i]) <=> (d[i]["cell_type"] = "code")

\* C9: the document holds only cells the tools appended, starting empty;
\* the step in which read_notebook_content returns without a fault returns
\* one entry per cell of the document in document order, entry i with
\* index i, the cell's kind and source, an outputs field exactly for code
\* cells, and total_cells the number of cells, and leaves the document
\* unchanged; add_markdown_cell that did not fault returned the fixed
\* success string.
C9_ReadReportsDocument ==
    /\ [](\A p \in Procs :
            Returns(p) /\ Clean(p) /\ op[p] = "add_markdown_cell" =>
                result[p] = <<"Jupyter Markdown cell added.">>)
    /\ [][\A p \in Procs :
            /\ op[p] = "read_notebook_content"
            /\ pc[p] # "done"
            /\ pc'[p] = "done"
            /\ lastFault'[p] = ""
            => /\ ReadMatches(result'[p], doc)
               /\ doc' = doc]_vars

\* after add_markdown_cell("# Title") on the empty document the read
\* reports one markdown cell at index 0 and total_cells 1
C9_Witness ==
    \E p \in Procs :
        /\ Returns(p)
        /\ op[p] = "read_notebook_content"
        /\ doc = <<[cell_type |-> "markdown", source |-> "# Title"]>>
        /\ result[p] = [cells |-> <<[index |-> 0, type |-> "markdown",
                                     content |-> "# Title"]>>,
                        total_cells |-> 1]

\* C10: read_notebook_content makes one attempt: it never sleeps a backoff
\* and never starts a second attempt; when its attempt faults (ensure
\* raised, or reading the document raised) it returns the payload with the
\* fault's description, no cells and total_cells 0; a payload with an error
\* never carries cells.
C10_ReadSingleAttempt ==
    \A p \in Procs :
        op[p] = "read_notebook_content" =>
            /\ pc[p] # "backoff"
            /\ attempt[p] = 0
            /\ Returns(p) /\ ~Clean(p) =>
                  result[p] = [error |-> lastFault[p], cells |-> <<>>,
                               total_cells |-> 0]
            /\ Returns(p) /\ Clean(p) => "error" \notin DOMAIN result[p]
            /\ Returns(p) /\ "error" \in DOMAIN result[p] =>
                  result[p]["cells"] = <<>> /\ result[p]["total_cells"] = 0

\* a read whose reading of the document raised returned the error payload
C10_Witness ==
    \E p \in Procs :
        /\ Returns(p)
        /\ op[p] = "read_notebook_content"
        /\ lastFault[p] = "doc"
        /\ Len(doc) > 0
        /\ result[p] = [error |-> "doc", cells |-> <<>>, total_cells |-> 0]

\* C11: kernel_restart ends in its error text only when kernel.stop() or
\* kernel.start() raised, never because stopping the session raised; the
\* step in which it returns without such a fault returns the fixed success
\* string, leaves the shared session handle absent, and leaves as kernel a
\* handle that was not constructed before the step (so it differs from the
\* kernel that was stopped) and is started.
C11_RestartSucceeds ==
    /\ [](\A p \in Procs :
            op[p] = "kernel_restart" /\ Returns(p) =>
                /\ ~Clean(p) => lastFault[p] \in {"kernel.stop", "kernel.start"}
                /\ Clean(p) => result[p] = <<"Jupyter kernel restarted successfully">>)
    /\ [][\A p \in Procs :
            /\ op[p] = "kernel_restart"
            /\ pc[p] # "done"
            /\ pc'[p] = "done"
            /\ lastFault'[p] = ""
            => /\ result'[p] = <<"Jupyter kernel restarted successfully">>
               /\ notebook_client' = None
               /\ kernel' # kernel
               /\ kstatus[kernel'] = "unused"
               /\ kstatus'[kernel'] = "started"
               /\ kstatus'[kernel] = "stopped"]_vars

\* kernel_restart returned the success string although stopping the only
\* session ever opened raised: that session is still open, the shared handle
\* is absent and the second kernel is started
C11_Witness ==
    \E p \in Procs :
        /\ Returns(p)
        /\ op[p] = "kernel_restart"
        /\ result[p] = <<"Jupyter kernel restarted successfully">>
        /\ hstatus[1] = "open"
        /\ \A h \in Handles \ {1} : hstatus[h] = "unused"
        /\ notebook_client = None
        /\ kernel = 2
        /\ kstatus[1] = "stopped"
        /\ kstatus[2] = "started"

\* C12: extract_output, applied to any output record (any kind, known or
\* not or missing, any subset of text, data and traceback present), returns
\* a display value and does not raise.
C12_NormalizeNeverFails ==
    display # <<>> => ~display[1].raised

\* the representation keys of the record r (none when it has no data field)
KeysOf(r) ==
    IF "data" \in DOMAIN r THEN {r["data"][i].k : i \in 1..Len(r["data"])} ELSE {}

\* C13: for a display_data or execute_result record with any subset of the
\* representation keys, in any insertion order, extract_output returns the
\* plain-text value verbatim when text/plain is present; else "[HTML
\* Output]" when text/html is present; else "[Image Output (PNG)]" when
\* image/png is present; else a placeholder that names the record's kind
\* and lists the keys present.  Only the highest-priority key present
\* decides the result.
C13_PriorityOrder ==
    display # <<>> /\ "output_type" \in DOMAIN out_record
        /\ out_record["output_type"] \in {"display_data", "execute_result"} =>
        LET keys == KeysOf(out_record)
            got == display[1]
        IN  /\ ~got.raised
            /\ "text/plain" \in keys => got.value = <<"2">>
            /\ "text/plain" \notin keys /\ "text/html" \in keys =>
                  got.value = <<"[HTML Output]">>
            /\ "text/plain" \notin keys /\ "text/html" \notin keys
                  /\ "image/png" \in keys =>
                  got.value = <<"[Image Output (PNG)]">>
            /\ keys \cap {"text/plain", "text/html", "image/png"} = {} =>
                  /\ Len(got.value) = 4 + Cardinality(keys)
                  /\ got.value[1] = "["
                  /\ got.value[2] = out_record["output_type"]
                  /\ got.value[3] = " Data: keys=["
                  /\ {got.value[3 + i] : i \in 1..Cardinality(keys)} = keys
                  /\ got.value[Len(got.value)] = "]]"

\* an execute_result carrying all four representations, the PNG inserted
\* first and the plain text last, was reduced to its plain text
C13_Witness ==
    /\ display = <<[raised |-> FALSE, value |-> <<"2">>]>>
    /\ out_record["output_type"] = "execute_result"
    /\ "data" \in DOMAIN out_record
    /\ Len(out_record["data"]) = 4
    /\ out_record["data"][4].k = "text/plain"

\* C14: whenever an attempt of add_markdown_cell, add_execute_code_cell or
\* read_notebook_content has ended in a fault (the task sleeps its backoff
\* or has returned the failure value), the shared session handle is absent.
C14_FaultInvalidates ==
    \A p \in Procs :
        /\ op[p] \in {"add_markdown_cell", "add_execute_code_cell",
                      "read_notebook_content"}
        /\ pc[p] \in {"backoff", "done"}
        /\ ~Clean(p)
        => notebook_client = None

\* C15: when the poll loop of add_execute_code_cell ends while the cell
\* index recorded at the append is no longer below the document's cell
\* count (another editor removed the cell), and reading the document state
\* itself does not raise, the final read yields no outputs: the step
\* returns the empty list and records no fault, so no retry follows.
C15_IndexGuarded ==
    [][\A p \in Procs :
          /\ pc[p] = "poll"
          /\ pc'[p] # "poll"
          /\ ~(cell_index[p] < Len(doc))
          /\ lastFault'[p] # "doc"
          => /\ pc'[p] = "done"
             /\ lastFault'[p] = ""
             /\ result'[p] = <<>>]_vars

\* C16: a poll iteration of add_execute_code_cell whose probe of the cell's
\* outputs raised does not end the attempt: the attempt counter is kept and,
\* while the accumulated wait is below 30 s (60 polls), the task sleeps for
\* the next poll with no fault recorded; at 60 polls the final read is made
\* and only a fault of that read can end the attempt in a fault.
C16_PollFaultSwallowed ==
    [][\A p \in Procs :
          pc[p] = "poll" /\ waited'[p] # waited[p] /\ lastPoll'[p] = "fault" =>
              /\ attempt'[p] = attempt[p]
              /\ waited'[p] = waited[p] + 1
              /\ waited'[p] < 60 => pc'[p] = "poll" /\ lastFault'[p] = ""
              /\ waited'[p] = 60 =>
                    \/ pc'[p] = "done" /\ lastFault'[p] = ""
                    \/ pc'[p] \in {"done", "backoff"} /\ lastFault'[p] = "doc"]_vars

\* the probe of the 60th poll raised, the final read was made all the same
\* and the first attempt returned the outputs it found
C16_Witness ==
    \E p \in Procs :
        /\ Returns(p)
        /\ op[p] = "add_execute_code_cell"
        /\ attempt[p] = 0
        /\ Clean(p)
        /\ lastPoll[p] = "fault"
        /\ waited[p] = 60
        /\ result[p] = << <<"2">> >>

\* C17: in add_markdown_cell, once the cell is appended and the task sleeps
\* before the verification, the step that follows returns the fixed success
\* string whatever the verification meets: no fault is recorded and no
\* further attempt is started.
C17_VerifyNeverRetries ==
    [][\A p \in Procs :
          pc[p] = "verify" /\ pc'[p] # "verify" =>
              /\ pc'[p] = "done"
              /\ lastFault'[p] = ""
              /\ result'[p] = <<"Jupyter Markdown cell added.">>]_vars

\* C18: one invocation of add_markdown_cell or add_execute_code_cell has
\* appended at most one cell to the document, over all of its attempts.
C18_AtMostOneAppend ==
    \A p \in Procs : op[p] \in RetryOps => appended[p] <= 1

\* C19: every step in which a call of ensure_notebook_connection returns,
\* under any interleaving of two invocations, returns a session handle that
\* is present and whose start() has completed; the tool then acts through
\* that handle.
C19_ReturnsStartedHandle ==
    [][\A p \in Procs :
          ens'[p].state = "returned" /\ ens'[p] # ens[p] =>
              /\ ens'[p].ret # None
              /\ hstatus'[ens'[p].ret] = "open"
              /\ notebook'[p] = ens'[p].ret]_vars

\* C20: one call of ensure_notebook_connection makes at most one call of
\* start() on a session, whether the cached handle was absent or was
\* discarded after a failed probe; one tool invocation therefore makes at
\* most max_retries = 3 of them.
C20_SingleOpen ==
    \A p \in Procs : ens[p].opens <= 1
====
